---- MODULE Spec2Model ----
(***************************************************************************)
(* Keccak-f[1600] and the streaming sponge of native/c/keccak/keccak1600.c *)
(*                                                                         *)
(* Representation.  A uint64_t lane is the set of the positions (0..63) of *)
(* its 1 bits, so the width is exact: a bit shifted past position 63 is    *)
(* dropped.  The lane array uint64_t a[25] is a sequence of 25 lanes,      *)
(* a[k] of the code being a[k+1] here.  A byte (uint8_t) is a number in    *)
(* 0..255 and a buffer is a sequence of bytes, in[k] of the code being     *)
(* in[k+1] here.                                                           *)
(***************************************************************************)
EXTENDS Integers, Naturals, Sequences, FiniteSets, TLC

\* Materialises a function over 1..n as a sequence value.
AsTuple(f) == f \o <<>>

\* ------------------------------------------------------------------------
\* bounds of the model
\* ------------------------------------------------------------------------

\* most bytes absorbed by one context
MaxIn == 3
\* most bytes squeezed from one context
MaxOut == 4
\* longest input handed to a one-shot helper
MaxHashIn == 2
\* most calls made on one context by a caller that keeps to no order
MaxCalls == 3

\* ------------------------------------------------------------------------
\* 64-bit lanes
\* ------------------------------------------------------------------------

Bits == 0 .. 63
Zero64 == {}

\* a ^ b
XOR64(a, b) == (a \ b) \cup (b \ a)
\* (~a) & b
NOTAND64(a, b) == b \ a
\* x << k and x >> k on uint64_t, 0 <= k < 64
SHL64(x, k) == {i + k : i \in x \cap (0 .. 63 - k)}
SHR64(x, k) == {i - k : i \in x \cap (k .. 63)}

\* A lane as it is stored: the same set, listed bit by bit.  (TLC then holds
\* every stored lane in the one form its workers fingerprint alike.)
Lane64(x) == {i \in Bits : i \in x}

\* keccak1600.h: (x << (n & 63)) | (x >> ((64 - n) & 63))
keccak_rotl64(x, n) == SHL64(x, n % 64) \cup SHR64(x, (64 - n) % 64)

\* The bits of byte value v (0..255), placed at byte k (0..7) of a lane:
\* byte k of a lane is bits 8k .. 8k+7 (little-endian host).
Pow2 == <<1, 2, 4, 8, 16, 32, 64, 128>>
ByteBits(v, k) == {8 * k + j : j \in {b \in 0 .. 7 : (v \div Pow2[b + 1]) % 2 = 1}}
\* The value of byte k of lane x.
LaneByte(x, k) ==
  LET bit(j) == IF (8 * k + j) \in x THEN Pow2[j + 1] ELSE 0
  IN bit(0) + bit(1) + bit(2) + bit(3) + bit(4) + bit(5) + bit(6) + bit(7)
\* The lane whose bytes, least significant first, are b[1] .. b[8].
LaneOfBytes(b) ==
  ByteBits(b[1], 0) \cup ByteBits(b[2], 1) \cup ByteBits(b[3], 2) \cup ByteBits(b[4], 3)
    \cup ByteBits(b[5], 4) \cup ByteBits(b[6], 5) \cup ByteBits(b[7], 6) \cup ByteBits(b[8], 7)

\* ------------------------------------------------------------------------
\* permutation
\* ------------------------------------------------------------------------

\* KECCAK_RC[24], each constant as its eight bytes, least significant first
\* (0x0000000000008082 is <<130, 128, 0, 0, 0, 0, 0, 0>>).
KECCAK_RC ==
  << <<1, 0, 0, 0, 0, 0, 0, 0>>,       <<130, 128, 0, 0, 0, 0, 0, 0>>,
     <<138, 128, 0, 0, 0, 0, 0, 128>>, <<0, 128, 0, 128, 0, 0, 0, 128>>,
     <<139, 128, 0, 0, 0, 0, 0, 0>>,   <<1, 0, 0, 128, 0, 0, 0, 0>>,
     <<129, 128, 0, 128, 0, 0, 0, 128>>, <<9, 128, 0, 0, 0, 0, 0, 128>>,
     <<138, 0, 0, 0, 0, 0, 0, 0>>,     <<136, 0, 0, 0, 0, 0, 0, 0>>,
     <<9, 128, 0, 128, 0, 0, 0, 0>>,   <<10, 0, 0, 128, 0, 0, 0, 0>>,
     <<139, 128, 0, 128, 0, 0, 0, 0>>, <<139, 0, 0, 0, 0, 0, 0, 128>>,
     <<137, 128, 0, 0, 0, 0, 0, 128>>, <<3, 128, 0, 0, 0, 0, 0, 128>>,
     <<2, 128, 0, 0, 0, 0, 0, 128>>,   <<128, 0, 0, 0, 0, 0, 0, 128>>,
     <<10, 128, 0, 0, 0, 0, 0, 0>>,    <<10, 0, 0, 128, 0, 0, 0, 128>>,
     <<129, 128, 0, 128, 0, 0, 0, 128>>, <<128, 128, 0, 0, 0, 0, 0, 128>>,
     <<1, 0, 0, 128, 0, 0, 0, 0>>,     <<8, 128, 0, 128, 0, 0, 0, 128>> >>

\* Lane (x, y) is a[5*y + x] in the code: element 5*y + x + 1 here.
L(x, y) == 5 * y + x + 1

\* theta: c0..c4, the column parities
ThetaC(a) ==
  AsTuple([x \in 1 .. 5 |->
    XOR64(XOR64(XOR64(XOR64(a[x], a[x + 5]), a[x + 10]), a[x + 15]), a[x + 20])])
\* ThetaD without the rotation: dX = c(X-1) ^ c(X+1).
ThetaD_NoRotl(c) ==
  AsTuple([x \in 1 .. 5 |-> XOR64(c[((x + 3) % 5) + 1], c[(x % 5) + 1])])

\* theta: d0..d4 (d0 = c4 ^ rotl(c1, 1), d1 = c0 ^ rotl(c2, 1), ...)
ThetaD(c) ==
  AsTuple([x \in 1 .. 5 |->
    XOR64(c[((x + 3) % 5) + 1], keccak_rotl64(c[(x % 5) + 1], 1))])
\* theta: aXY ^= dX
ThetaApply(a, d) == AsTuple([i \in 1 .. 25 |-> XOR64(a[i], d[((i - 1) % 5) + 1])])
Theta(a) == ThetaApply(a, ThetaD(ThetaC(a)))

\* rho-pi as the macro writes it: the entry for bXY (element L(X, Y)) names
\* the source lane, as <<x, y>> of aXY, and the rotation amount.
RHOPI ==
  << <<0, 0, 0>>,  <<0, 1, 1>>,  <<0, 2, 62>>, <<0, 3, 28>>, <<0, 4, 27>>,
     <<1, 0, 36>>, <<1, 1, 44>>, <<1, 2, 6>>,  <<1, 3, 55>>, <<1, 4, 20>>,
     <<2, 0, 3>>,  <<2, 1, 10>>, <<2, 2, 43>>, <<2, 3, 25>>, <<2, 4, 39>>,
     <<3, 0, 41>>, <<3, 1, 45>>, <<3, 2, 15>>, <<3, 3, 21>>, <<3, 4, 8>>,
     <<4, 0, 18>>, <<4, 1, 2>>,  <<4, 2, 61>>, <<4, 3, 56>>, <<4, 4, 14>> >>
\* b00 = a00 is written without a rotation; every other lane goes through
\* keccak_rotl64.
RhoPi(a) ==
  AsTuple([i \in 1 .. 25 |->
    IF i = 1 THEN a[1]
    ELSE keccak_rotl64(a[L(RHOPI[i][1], RHOPI[i][2])], RHOPI[i][3])])

\* Chi written in place, on the a lanes: a3Y and a4Y of every row read the
\* a0Y and a1Y that the row has already overwritten.
Chi_InPlace(b) ==
  AsTuple([i \in 1 .. 25 |->
    LET y == (i - 1) \div 5
        x == (i - 1) % 5
        new(k) == XOR64(b[L(k, y)], NOTAND64(b[L(k + 1, y)], b[L(k + 2, y)]))
    IN CASE x = 3 -> XOR64(b[i], NOTAND64(b[L(4, y)], new(0)))
         [] x = 4 -> XOR64(b[i], NOTAND64(new(0), new(1)))
         [] OTHER -> new(x)])

\* chi, row-wise: aXY = bXY ^ ((~b(X+1)Y) & b(X+2)Y), read from the b lanes
Chi(b) ==
  AsTuple([i \in 1 .. 25 |->
    LET y == (i - 1) \div 5
        x == (i - 1) % 5
    IN XOR64(b[i], NOTAND64(b[L((x + 1) % 5, y)], b[L((x + 2) % 5, y)]))])

\* Iota with the constant XORed into a10.
Iota_IntoLane10(a, rc) == [a EXCEPT ![2] = XOR64(@, rc)]

\* iota: a00 ^= RC
Iota(a, rc) == [a EXCEPT ![1] = XOR64(@, rc)]

\* KECCAK_ROUND(KECCAK_RC[r]), r in 0..23
KECCAK_ROUND(a, r) == Iota(Chi(RhoPi(Theta(a))), LaneOfBytes(KECCAK_RC[r + 1]))

\* The 24 unrolled rounds, from round r on.  (The test on nx makes TLC compute
\* the lanes of a round before it starts the next one; it is always true.)
RECURSIVE Rounds(_, _)
Rounds(a, r) ==
  IF r = 24 THEN a
  ELSE LET nx == KECCAK_ROUND(a, r)
       IN IF Len(nx) = 25 THEN Rounds(nx, r + 1) ELSE nx

\* s[5*y + x] = aXY
Store(a) == AsTuple([i \in 1 .. 25 |-> Lane64(a[i])])

keccakf1600(s) == Store(Rounds(s, 0))

\* keccak_state_zero
keccak_state_zero == AsTuple([i \in 1 .. 25 |-> Zero64])

\* ------------------------------------------------------------------------
\* sponge context
\* ------------------------------------------------------------------------

\* enum KECCAK_RATE_* and KECCAK_DELIM_* of keccak1600.h
KECCAK_RATE_SHA3_224 == 144
KECCAK_RATE_SHA3_256 == 136
KECCAK_RATE_SHA3_384 == 104
KECCAK_RATE_SHA3_512 == 72
KECCAK_DELIM_KECCAK == 1
KECCAK_DELIM_SHA3 == 6
KECCAK_DELIM_SHAKE == 31

Min(m, n) == IF m < n THEN m ELSE n

\* st[i], with st = (uint8_t *)ctx->a, 0 <= i < 200
StByte(a, i) == LaneByte(a[(i \div 8) + 1], i % 8)
\* st[i] ^= v
StXor(a, i, v) == [a EXCEPT ![(i \div 8) + 1] = Lane64(XOR64(@, ByteBits(v, i % 8)))]
\* for (i = from; i < t; i++) st[pos + i] ^= in[i];
RECURSIVE XorBytes(_, _, _, _, _)
XorBytes(a, pos, in, from, t) ==
  IF from >= t THEN a
  ELSE LET nx == StXor(a, pos + from, in[from + 1])
       IN IF Len(nx) = 25 THEN XorBytes(nx, pos, in, from + 1, t) ELSE nx
\* The byte view on any build.  st = (uint8_t *)ctx->a addresses the bytes of
\* the lanes as the build stores a uint64_t: least significant byte first
\* ("little") or most significant byte first ("big").  HostByte is the byte
\* of the lane, counted from the least significant, found at offset k.
Hosts == {"little", "big"}
HostByte(h, k) == IF h = "little" THEN k ELSE 7 - k
\* st[i]
StByteOn(h, a, i) == LaneByte(a[(i \div 8) + 1], HostByte(h, i % 8))
\* st[i] ^= v
StXorOn(h, a, i, v) ==
  [a EXCEPT ![(i \div 8) + 1] = Lane64(XOR64(@, ByteBits(v, HostByte(h, i % 8))))]
\* memcpy(out, st + pos, t)
StCopyOn(h, a, pos, t) == AsTuple([i \in 1 .. t |-> StByteOn(h, a, pos + i - 1)])

\* memcpy(out, st + pos, t)
StCopy(a, pos, t) == AsTuple([i \in 1 .. t |-> StByte(a, pos + i - 1)])

\* A keccak1600_ctx is the tuple <<a, rate, pos, delim, calls>> of its four
\* fields and of calls, which is no field of the struct: it counts the
\* keccakf1600(ctx->a) calls made on the context since keccak1600_init.  The
\* local copy of pos that absorb and squeeze work on and store back on
\* return is the pos field here.
Ctx(a, rate, pos, delim, calls) == <<a, rate, pos, delim, calls>>
A(c) == c[1]
Rate(c) == c[2]
Pos(c) == c[3]
Delim(c) == c[4]
Calls(c) == c[5]
SetA(c, a) == [c EXCEPT ![1] = a]
SetPos(c, pos) == [c EXCEPT ![3] = pos]

\* keccakf1600(ctx->a)
Permute(c) == [c EXCEPT ![1] = keccakf1600(@), ![5] = @ + 1]

keccak1600_init(rate, delim) == Ctx(keccak_state_zero, rate, 0, delim, 0)

\* keccak1600_init_on without the keccak_state_zero(ctx->a) call.
keccak1600_init_on_KeepsLanes(c, rate, delim) ==
  [c EXCEPT ![2] = rate, ![3] = 0, ![4] = delim, ![5] = 0]

\* keccak1600_init(&ctx, rate, delim) on a context that holds c: the call of
\* keccak_state_zero and the three assignments (and no permutation has run
\* on the context since).
keccak1600_init_on(c, rate, delim) ==
  [c EXCEPT ![1] = keccak_state_zero, ![2] = rate, ![3] = 0, ![4] = delim, ![5] = 0]

\* AbsorbPartial with the permutation of the filled block left out.
AbsorbPartial_NoPermute(c, in) ==
  IF Pos(c) = 0 THEN <<c, in>>
  ELSE LET t == Min(Rate(c) - Pos(c), Len(in))
           x == SetPos(SetA(c, XorBytes(A(c), Pos(c), in, 0, t)), Pos(c) + t)
       IN <<IF Pos(x) = Rate(x) THEN SetPos(x, 0) ELSE x,
            SubSeq(in, t + 1, Len(in))>>

\* absorb, if (pos) { ... }: fill the open block, permute when it is full.
\* The result is the context and the input not yet consumed.
AbsorbPartial(c, in) ==
  IF Pos(c) = 0 THEN <<c, in>>
  ELSE LET t == Min(Rate(c) - Pos(c), Len(in))
           x == SetPos(SetA(c, XorBytes(A(c), Pos(c), in, 0, t)), Pos(c) + t)
       IN <<IF Pos(x) = Rate(x) THEN SetPos(Permute(x), 0) ELSE x,
            SubSeq(in, t + 1, Len(in))>>

\* AbsorbFull with the loop test written inlen > rate.
RECURSIVE AbsorbFull_Strict(_, _)
AbsorbFull_Strict(c, in) ==
  IF Len(in) > Rate(c)
  THEN AbsorbFull_Strict(Permute(SetA(c, XorBytes(A(c), 0, in, 0, Rate(c)))),
                         SubSeq(in, Rate(c) + 1, Len(in)))
  ELSE <<c, in>>

\* absorb, while (inlen >= rate) { ... }: whole blocks, XORed in from st[0]
RECURSIVE AbsorbFull(_, _)
AbsorbFull(c, in) ==
  IF Len(in) >= Rate(c)
  THEN AbsorbFull(Permute(SetA(c, XorBytes(A(c), 0, in, 0, Rate(c)))),
                  SubSeq(in, Rate(c) + 1, Len(in)))
  ELSE <<c, in>>

\* AbsorbTail with the leftover bytes XORed in from the end of the rate window
\* on, st[rate + i] ^= in[i].
AbsorbTail_IntoCapacity(c, in) ==
  IF Len(in) > 0
  THEN SetPos(SetA(c, XorBytes(A(c), Rate(c), in, 0, Len(in))), Pos(c) + Len(in))
  ELSE c

\* AbsorbTail run whatever inlen is, storing pos = inlen.
AbsorbTail_PosIsLen(c, in) ==
  SetPos(SetA(c, XorBytes(A(c), Pos(c), in, 0, Len(in))), Len(in))

\* absorb, if (inlen) { ... }: the bytes left over open a block
AbsorbTail(c, in) ==
  IF Len(in) > 0
  THEN SetPos(SetA(c, XorBytes(A(c), Pos(c), in, 0, Len(in))), Pos(c) + Len(in))
  ELSE c

\* absorb, one pass of while (inlen >= rate): a whole block XORed in from
\* st[0], the permutation, in += rate and inlen -= rate.  The result is the
\* context and the input not yet consumed.
AbsorbPass(c, in) ==
  <<Permute(SetA(c, XorBytes(A(c), 0, in, 0, Rate(c)))), SubSeq(in, Rate(c) + 1, Len(in))>>

AbsorbRest(p) == AbsorbTail(p[1], p[2])
AbsorbBlocks(p) == AbsorbFull(p[1], p[2])
keccak1600_absorb(c, in) == AbsorbRest(AbsorbBlocks(AbsorbPartial(c, in)))

\* FinalizePad with the delimiter XORed into st[0] instead of st[pos].
FinalizePad_DelimAtZero(c) == StXor(StXor(A(c), 0, Delim(c)), Rate(c) - 1, 128)

\* st[ctx->pos] ^= ctx->delim; st[rate - 1] ^= 0x80;
FinalizePad(c) == StXor(StXor(A(c), Pos(c), Delim(c)), Rate(c) - 1, 128)
keccak1600_finalize(c) == SetPos(Permute(SetA(c, FinalizePad(c))), 0)

\* SqueezeBlock with the cursor wrapped and the permutation left out.
SqueezeBlock_NoPermute(c) == IF Pos(c) = Rate(c) THEN SetPos(c, 0) ELSE c

\* squeeze, if (pos == rate) { ... }
SqueezeBlock(c) == IF Pos(c) = Rate(c) THEN SetPos(Permute(c), 0) ELSE c

\* SqueezeLoop with the bytes handed out cleared in the state.
RECURSIVE SqueezeLoop_Wipe(_, _, _)
SqueezeLoop_Wipe(c, out, outlen) ==
  IF outlen = 0 THEN <<c, out>>
  ELSE LET x == SqueezeBlock(c)
           t == Min(Rate(x) - Pos(x), outlen)
           b == StCopy(A(x), Pos(x), t)
       IN SqueezeLoop_Wipe(SetPos(SetA(x, XorBytes(A(x), Pos(x), b, 0, t)), Pos(x) + t),
                           out \o b, outlen - t)

\* SqueezeLoop with the permutation moved behind the copy: it runs as soon as
\* the window is used up, before any further byte is asked for.
RECURSIVE SqueezeLoop_Eager(_, _, _)
SqueezeLoop_Eager(c, out, outlen) ==
  IF outlen = 0 THEN <<c, out>>
  ELSE LET t == Min(Rate(c) - Pos(c), outlen)
           x == SetPos(c, Pos(c) + t)
       IN SqueezeLoop_Eager(IF Pos(x) = Rate(x) THEN SetPos(Permute(x), 0) ELSE x,
                            out \o StCopy(A(c), Pos(c), t), outlen - t)

\* SqueezeLoop without "if (t > outlen) t = outlen": every copy runs to the
\* end of the rate window.
RECURSIVE SqueezeLoop_NoClamp(_, _, _)
SqueezeLoop_NoClamp(c, out, outlen) ==
  IF outlen <= 0 THEN <<c, out>>
  ELSE LET x == SqueezeBlock(c)
           t == Rate(x) - Pos(x)
       IN SqueezeLoop_NoClamp(SetPos(x, Pos(x) + t), out \o StCopy(A(x), Pos(x), t),
                              outlen - t)

\* squeeze, while (outlen) { ... }, out being the bytes written so far
RECURSIVE SqueezeLoop(_, _, _)
SqueezeLoop(c, out, outlen) ==
  IF outlen = 0 THEN <<c, out>>
  ELSE LET x == SqueezeBlock(c)
           t == Min(Rate(x) - Pos(x), outlen)
       IN SqueezeLoop(SetPos(x, Pos(x) + t), out \o StCopy(A(x), Pos(x), t), outlen - t)

\* SqueezePass without the block "if (pos == rate) { ... }": from pos == rate
\* the pass copies t = 0 bytes and leaves outlen as it was.
SqueezePass_NoWrap(c, out, outlen) ==
  LET t == Min(Rate(c) - Pos(c), outlen)
  IN <<SetPos(c, Pos(c) + t), out \o StCopy(A(c), Pos(c), t), outlen - t>>

\* squeeze, one pass of while (outlen): the permutation when the window is
\* used up, the copy of t bytes, out += t, outlen -= t and pos += t.  The
\* result is the context, the bytes written so far and the outlen left.
SqueezePass(c, out, outlen) ==
  LET x == SqueezeBlock(c)
      t == Min(Rate(x) - Pos(x), outlen)
  IN <<SetPos(x, Pos(x) + t), out \o StCopy(A(x), Pos(x), t), outlen - t>>

\* keccak1600_squeeze without the final ctx->pos = pos.
keccak1600_squeeze_PosNotStored(c, outlen) ==
  LET r == SqueezeLoop(c, <<>>, outlen) IN <<SetPos(r[1], Pos(c)), r[2]>>

\* <<the context on return, the bytes written to out[0 .. outlen)>>
keccak1600_squeeze(c, outlen) == SqueezeLoop(c, <<>>, outlen)

\* ------------------------------------------------------------------------
\* the state bytes a call touches: the indices i of its accesses st[i]
\* ------------------------------------------------------------------------

\* keccak1600_absorb(&c, in, inlen): st[pos + i] for i < t in the partial
\* block, st[i] for i < rate when a whole block is absorbed, st[pos + i] for
\* i < inlen in the tail
AbsorbSt(c, inlen) ==
  LET rate == Rate(c)
      pos == Pos(c)
      t == IF pos = 0 THEN 0 ELSE Min(rate - pos, inlen)
      pos1 == IF pos # 0 /\ pos + t = rate THEN 0 ELSE pos + t
      inlen1 == inlen - t
      inlen2 == inlen1 % rate
  IN UNION { IF pos # 0 THEN {pos + i : i \in 0 .. t - 1} ELSE {},
             IF inlen1 >= rate THEN 0 .. rate - 1 ELSE {},
             {pos1 + i : i \in 0 .. inlen2 - 1} }

\* keccak1600_finalize(&c): st[ctx->pos] and st[rate - 1]
FinalizeSt(c) == {Pos(c), Rate(c) - 1}

\* keccak1600_squeeze(&c, out, outlen): memcpy(out, st + pos, t) reads
\* st[pos .. pos + t) in every pass of the loop
RECURSIVE SqueezeSt(_, _)
SqueezeSt(c, outlen) ==
  IF outlen = 0 THEN {}
  ELSE LET pos == IF Pos(c) = Rate(c) THEN 0 ELSE Pos(c)
           t == Min(Rate(c) - pos, outlen)
       IN (pos .. pos + t - 1) \cup SqueezeSt(SetPos(c, pos + t), outlen - t)

\* ------------------------------------------------------------------------
\* one-shot helpers
\* ------------------------------------------------------------------------

\* sha3_hash_generic with the keccak1600_finalize call left out.
sha3_hash_generic_NoFinalize(in, outlen, rate, delim) ==
  keccak1600_squeeze(keccak1600_absorb(keccak1600_init(rate, delim), in), outlen)

\* <<the local context on return, the bytes written to out>>
sha3_hash_generic(in, outlen, rate, delim) ==
  keccak1600_squeeze(
    keccak1600_finalize(keccak1600_absorb(keccak1600_init(rate, delim), in)), outlen)

\* keccak_256 with the SHA-3 delimiter.
keccak_256_Sha3Delim(in) ==
  sha3_hash_generic(in, 32, KECCAK_RATE_SHA3_256, KECCAK_DELIM_SHA3)

keccak_256(in) == sha3_hash_generic(in, 32, KECCAK_RATE_SHA3_256, KECCAK_DELIM_KECCAK)
sha3_256(in) == sha3_hash_generic(in, 32, KECCAK_RATE_SHA3_256, KECCAK_DELIM_SHA3)
sha3_224(in) == sha3_hash_generic(in, 28, KECCAK_RATE_SHA3_224, KECCAK_DELIM_SHA3)
sha3_384(in) == sha3_hash_generic(in, 48, KECCAK_RATE_SHA3_384, KECCAK_DELIM_SHA3)
sha3_512(in) == sha3_hash_generic(in, 64, KECCAK_RATE_SHA3_512, KECCAK_DELIM_SHA3)

\* ------------------------------------------------------------------------
\* state
\* ------------------------------------------------------------------------

\* The byte strings of length 0 .. n over the byte values B.
ByteStrings(B, n) == UNION {{AsTuple(f) : f \in [1 .. k -> B]} : k \in 0 .. n}

\* rates and delimiters the contexts are initialised with; the input bytes
Rates == {1, 2, KECCAK_RATE_SHA3_256, 200}
Delims == {KECCAK_DELIM_KECCAK, KECCAK_DELIM_SHA3}
\* the message a caller feeds to absorb, MaxIn bytes with bits of every weight
Message(seed) == AsTuple([i \in 1 .. MaxIn |-> (seed + 97 * i) % 256])
Messages == {Message(165)}
HashBytes == {0, 1, 165, 255}
\* inputs of one rate window and more: 72 is the window of sha3_512, 136 that
\* of keccak_256 and sha3_256, 144 that of sha3_224 and two windows of sha3_512
LongLens ==
  {KECCAK_RATE_SHA3_512, KECCAK_RATE_SHA3_256, KECCAK_RATE_SHA3_256 + 1,
   KECCAK_RATE_SHA3_224}
LongInput(n) == AsTuple([i \in 1 .. n |-> (31 * i + 7) % 256])
\* the inputs handed to the one-shot helpers
HashInputs == ByteStrings(HashBytes, MaxHashIn) \cup {LongInput(n) : n \in LongLens}

\* lanes the round-level specification starts from: all zero, one bit per
\* lane (bit k of lane k), and a denser pattern
RoundInputs ==
  { keccak_state_zero,
    AsTuple([i \in 1 .. 25 |-> {i - 1}]),
    AsTuple([i \in 1 .. 25 |-> {(7 * i) % 64, (11 * i + 3) % 64, 63}]) }

VARIABLES
  ctx,    \* the caller's keccak1600_ctx
  src,    \* the caller's message, absorbed front to back in chunks
  phase,  \* where the caller is in init, absorb*, finalize, squeeze*
  last,   \* the last call made on ctx: <<name, length argument>> (for a
          \* repeated init, the cursor it found in place of a length)
  msg,    \* the bytes absorbed since init, in order
  out,    \* the bytes squeezed since finalize, in order
  pre,    \* the context as finalize found it
  fin,    \* the context as finalize left it
  hash,   \* the last one-shot call: <<helper, input, local context, output>>
  s,      \* the lanes aXY / bXY inside keccakf1600
  pc,     \* the step of KECCAK_ROUND that runs next
  rnd,    \* the rounds completed
  prev,   \* the lanes before the last step
  hpc,    \* the line of sha3_hash_generic that a helper call in steps runs next
  host,   \* the byte order in which the build stores a uint64_t
  loc,    \* the call on ctx that is running in steps: <<the line it is at,
          \* its local pos, the input not yet consumed, its outlen, the
          \* passes of its while loop made so far>>
  idx     \* the indices i of the state bytes st[i] read or written by the
          \* last call on ctx that ran as a whole

vars ==
  <<ctx, src, phase, last, msg, out, pre, fin, hash, s, pc, rnd, prev, hpc, host,
    loc, idx>>
spongeVars == <<ctx, src, phase, last, msg, out, pre, fin>>
roundVars == <<s, pc, rnd, prev>>

NoCall == <<"none", <<>>, keccak1600_init(1, 0), <<>>>>
HashFn == hash[1]
HashIn == hash[2]
HashCtx == hash[3]
HashOut == hash[4]
LastOp == last[1]
LastLen == last[2]

SpongeInit(rate, delim, m) ==
  /\ ctx = keccak1600_init(rate, delim)
  /\ src = m
  /\ phase = "absorbing"
  /\ last = <<"init", 0>>
  /\ msg = <<>>
  /\ out = <<>>
  /\ pre = ctx
  /\ fin = ctx
HashIdle == hash = NoCall /\ hpc = "idle"
\* the build the sponge operators above are those of
HostLittle == host = "little"
\* no call is running in steps, and no call has touched the state bytes
NoLocals == <<"idle", 0, <<>>, 0, 0>>
CallIdle == loc = NoLocals /\ idx = {}
RoundIdle == s = keccak_state_zero /\ pc = "theta" /\ rnd = 0 /\ prev = keccak_state_zero

\* ------------------------------------------------------------------------
\* the streaming protocol: init, absorb*, finalize, squeeze*
\* ------------------------------------------------------------------------

Init ==
  /\ \E rate \in Rates, delim \in Delims, m \in Messages : SpongeInit(rate, delim, m)
  /\ HashIdle
  /\ RoundIdle
  /\ HostLittle
  /\ CallIdle

\* keccak1600_absorb(&ctx, in, inlen) on the next inlen bytes of the message
Absorb(inlen) ==
  /\ phase = "absorbing"
  /\ Len(msg) + inlen <= Len(src)
  /\ LET in == SubSeq(src, Len(msg) + 1, Len(msg) + inlen)
     IN ctx' = keccak1600_absorb(ctx, in) /\ msg' = msg \o in
  /\ idx' = AbsorbSt(ctx, inlen)
  /\ last' = <<"absorb", inlen>>
  /\ UNCHANGED <<src, phase, out, pre, fin, hash, hpc, host, loc, roundVars>>

\* keccak1600_finalize(&ctx)
Finalize ==
  /\ phase = "absorbing"
  /\ LET c == keccak1600_finalize(ctx)
     IN ctx' = c /\ fin' = c
  /\ pre' = ctx
  /\ phase' = "squeezing"
  /\ idx' = FinalizeSt(ctx)
  /\ last' = <<"finalize", 0>>
  /\ UNCHANGED <<src, msg, out, hash, hpc, host, loc, roundVars>>

\* keccak1600_squeeze(&ctx, out, outlen)
Squeeze(outlen) ==
  /\ phase = "squeezing"
  /\ Len(out) + outlen <= MaxOut
  /\ LET r == keccak1600_squeeze(ctx, outlen)
     IN ctx' = r[1] /\ out' = out \o r[2]
  /\ idx' = SqueezeSt(ctx, outlen)
  /\ last' = <<"squeeze", outlen>>
  /\ UNCHANGED <<src, phase, msg, pre, fin, hash, hpc, host, loc, roundVars>>

Next ==
  \/ \E inlen \in 0 .. MaxIn : Absorb(inlen)
  \/ Finalize
  \/ \E outlen \in 0 .. MaxOut : Squeeze(outlen)

Spec == Init /\ [][Next]_vars

\* keccak1600_init(&ctx, rate, delim) on the context in use, whatever it
\* holds, and the message from its start again
Reinit(rate, delim) ==
  /\ ctx' = keccak1600_init_on(ctx, rate, delim)
  /\ phase' = "absorbing"
  /\ last' = <<"reinit", Pos(ctx)>>
  /\ msg' = <<>>
  /\ out' = <<>>
  /\ pre' = ctx'
  /\ fin' = ctx'
  /\ idx' = {}
  /\ UNCHANGED <<src, hash, hpc, host, loc, roundVars>>

\* The streaming protocol on contexts with much capacity (rate 2) and with the
\* capacity of the 256-bit variants (rate 136).
CapacityRates == {2, KECCAK_RATE_SHA3_256}

InitCapacity ==
  /\ \E rate \in CapacityRates, m \in Messages : SpongeInit(rate, KECCAK_DELIM_SHA3, m)
  /\ HashIdle
  /\ RoundIdle
  /\ HostLittle
  /\ CallIdle

SpecCapacity == InitCapacity /\ [][Next]_vars

\* The streaming protocol with the context initialised again at any point;
\* the legacy Keccak delimiter is given to a context only then.
NextReinit ==
  \/ Next
  \/ \E rate \in CapacityRates, delim \in Delims : Reinit(rate, delim)

SpecReinit == InitCapacity /\ [][NextReinit]_vars

\* ------------------------------------------------------------------------
\* the streaming protocol with absorb and squeeze run loop pass by loop pass
\* ------------------------------------------------------------------------

LocAt == loc[1]
LocPos == loc[2]
LocIn == loc[3]
LocOutlen == loc[4]
\* the context with the local pos of the running call in place of ctx->pos
Working == SetPos(ctx, LocPos)

InitSteps ==
  /\ \E rate \in Rates, m \in Messages : SpongeInit(rate, KECCAK_DELIM_SHA3, m)
  /\ HashIdle
  /\ RoundIdle
  /\ HostLittle
  /\ CallIdle

\* keccak1600_absorb(&ctx, in, inlen) is entered: rate and pos are loaded
CallAbsorb(inlen) ==
  /\ phase = "absorbing"
  /\ LocAt = "idle"
  /\ Len(msg) + inlen <= Len(src)
  /\ LET in == SubSeq(src, Len(msg) + 1, Len(msg) + inlen)
     IN loc' = <<"absorb_if", Pos(ctx), in, 0, 0>> /\ msg' = msg \o in
  /\ last' = <<"absorb", inlen>>
  /\ UNCHANGED <<ctx, src, phase, out, pre, fin, hash, hpc, host, idx, roundVars>>

\* absorb, if (pos) { ... }
AbsorbIf ==
  /\ LocAt = "absorb_if"
  /\ LET p == AbsorbPartial(Working, LocIn)
     IN /\ ctx' = SetPos(p[1], Pos(ctx))
        /\ loc' = <<"absorb_while", Pos(p[1]), p[2], 0, 0>>
  /\ UNCHANGED <<src, phase, last, msg, out, pre, fin, hash, hpc, host, idx, roundVars>>

\* absorb, one pass of while (inlen >= rate) { ... }
AbsorbWhile ==
  /\ LocAt = "absorb_while"
  /\ Len(LocIn) >= Rate(ctx)
  /\ LET p == AbsorbPass(Working, LocIn)
     IN /\ ctx' = SetPos(p[1], Pos(ctx))
        /\ loc' = <<"absorb_while", Pos(p[1]), p[2], 0, loc[5] + 1>>
  /\ UNCHANGED <<src, phase, last, msg, out, pre, fin, hash, hpc, host, idx, roundVars>>

\* absorb, the loop is left: if (inlen) { ... }, ctx->pos = pos and return
AbsorbReturn ==
  /\ LocAt = "absorb_while"
  /\ Len(LocIn) < Rate(ctx)
  /\ ctx' = AbsorbTail(Working, LocIn)
  /\ loc' = NoLocals
  /\ UNCHANGED <<src, phase, last, msg, out, pre, fin, hash, hpc, host, idx, roundVars>>

\* keccak1600_squeeze(&ctx, out, outlen) is entered: rate and pos are loaded
CallSqueeze(outlen) ==
  /\ phase = "squeezing"
  /\ LocAt = "idle"
  /\ Len(out) + outlen <= MaxOut
  /\ loc' = <<"squeeze_while", Pos(ctx), <<>>, outlen, 0>>
  /\ last' = <<"squeeze", outlen>>
  /\ UNCHANGED <<ctx, src, phase, msg, out, pre, fin, hash, hpc, host, idx, roundVars>>

\* squeeze, one pass of while (outlen) { ... }
SqueezeWhile ==
  /\ LocAt = "squeeze_while"
  /\ LocOutlen # 0
  /\ LET r == SqueezePass(Working, out, LocOutlen)
     IN /\ ctx' = SetPos(r[1], Pos(ctx))
        /\ out' = r[2]
        /\ loc' = <<"squeeze_while", Pos(r[1]), <<>>, r[3], loc[5] + 1>>
  /\ UNCHANGED <<src, phase, last, msg, pre, fin, hash, hpc, host, idx, roundVars>>

\* squeeze, the loop is left: ctx->pos = pos and return
SqueezeReturn ==
  /\ LocAt = "squeeze_while"
  /\ LocOutlen = 0
  /\ ctx' = Working
  /\ loc' = NoLocals
  /\ UNCHANGED <<src, phase, last, msg, out, pre, fin, hash, hpc, host, idx, roundVars>>

\* the call that has been entered runs on
Running == AbsorbIf \/ AbsorbWhile \/ AbsorbReturn \/ SqueezeWhile \/ SqueezeReturn

NextSteps ==
  \/ \E inlen \in 0 .. MaxIn : CallAbsorb(inlen)
  \/ LocAt = "idle" /\ Finalize
  \/ \E outlen \in 0 .. MaxOut : CallSqueeze(outlen)
  \/ AbsorbIf
  \/ AbsorbWhile
  \/ AbsorbReturn
  \/ SqueezeWhile
  \/ SqueezeReturn

\* The code is sequential and nothing in it waits: a call that has been
\* entered takes its next step.  The caller may stop between calls.
SpecSteps == InitSteps /\ [][NextSteps]_vars /\ WF_vars(Running)

\* ------------------------------------------------------------------------
\* absorb, finalize and squeeze called in any order
\* ------------------------------------------------------------------------

\* last holds a third entry here: the calls made on ctx since keccak1600_init

InitMisuse ==
  /\ \E rate \in Rates, delim \in Delims : ctx = keccak1600_init(rate, delim)
  /\ src \in Messages
  /\ phase = "any"
  /\ last = <<"init", 0, 0>>
  /\ msg = <<>>
  /\ out = <<>>
  /\ pre = ctx
  /\ fin = ctx
  /\ HashIdle
  /\ RoundIdle
  /\ HostLittle
  /\ CallIdle

\* keccak1600_absorb(&ctx, in, inlen), whatever was called before
MisuseAbsorb(inlen) ==
  /\ phase = "any"
  /\ last[3] < MaxCalls
  /\ LET in == SubSeq(src, 1, inlen)
     IN ctx' = keccak1600_absorb(ctx, in) /\ msg' = msg \o in
  /\ idx' = AbsorbSt(ctx, inlen)
  /\ last' = <<"absorb", inlen, last[3] + 1>>
  /\ UNCHANGED <<src, phase, out, pre, fin, hash, hpc, host, loc, roundVars>>

\* keccak1600_finalize(&ctx), whatever was called before, with ctx->pos
\* inside ctx->a
MisuseFinalize ==
  /\ phase = "any"
  /\ last[3] < MaxCalls
  /\ Pos(ctx) < 200
  /\ LET c == keccak1600_finalize(ctx)
     IN ctx' = c /\ fin' = c
  /\ pre' = ctx
  /\ idx' = FinalizeSt(ctx)
  /\ last' = <<"finalize", 0, last[3] + 1>>
  /\ UNCHANGED <<src, phase, msg, out, hash, hpc, host, loc, roundVars>>

\* keccak1600_finalize(&ctx) with ctx->pos == 200: st[200] ^= ctx->delim is
\* a write past the end of ctx->a, which the language leaves undefined.  The
\* byte at that offset of the struct is the first byte of ctx->rate: the
\* build either changes it or leaves the field as it was.  st[199] ^= 0x80
\* and the permutation follow.  What later calls do is not followed.
MisuseFinalizePastState ==
  /\ phase = "any"
  /\ last[3] < MaxCalls
  /\ Pos(ctx) = 200
  /\ \E rate \in {Rate(ctx), LaneByte(XOR64(ByteBits(Rate(ctx), 0), ByteBits(Delim(ctx), 0)), 0)} :
       LET c == SetPos(Permute(SetA(ctx, StXor(A(ctx), Rate(ctx) - 1, 128))), 0)
       IN ctx' = [c EXCEPT ![2] = rate] /\ fin' = ctx'
  /\ pre' = ctx
  /\ idx' = FinalizeSt(ctx)
  /\ phase' = "undefined"
  /\ last' = <<"finalize", 0, last[3] + 1>>
  /\ UNCHANGED <<src, msg, out, hash, hpc, host, loc, roundVars>>

\* keccak1600_squeeze(&ctx, out, outlen), whatever was called before
MisuseSqueeze(outlen) ==
  /\ phase = "any"
  /\ last[3] < MaxCalls
  /\ LET r == keccak1600_squeeze(ctx, outlen)
     IN ctx' = r[1] /\ out' = out \o r[2]
  /\ idx' = SqueezeSt(ctx, outlen)
  /\ last' = <<"squeeze", outlen, last[3] + 1>>
  /\ UNCHANGED <<src, phase, msg, pre, fin, hash, hpc, host, loc, roundVars>>

\* The caller passes none, one or all of the bytes of its message, and asks
\* for no byte, for one, for those up to the end of the rate window and for
\* one more than a window.
NextMisuse ==
  \/ \E inlen \in {0, 1, MaxIn} : MisuseAbsorb(inlen)
  \/ MisuseFinalize
  \/ MisuseFinalizePastState
  \/ \E outlen \in {0, 1, Rate(ctx) - Pos(ctx), Rate(ctx) + 1} : MisuseSqueeze(outlen)

SpecMisuse == InitMisuse /\ [][NextMisuse]_vars

\* ------------------------------------------------------------------------
\* the one-shot helpers, each call on inputs of its own
\* ------------------------------------------------------------------------

InitHash ==
  /\ SpongeInit(KECCAK_RATE_SHA3_256, KECCAK_DELIM_SHA3, <<>>)
  /\ HashIdle
  /\ RoundIdle
  /\ HostLittle
  /\ CallIdle

Called(fn, in, r) ==
  /\ hash' = <<fn, in, r[1], r[2]>>
  /\ UNCHANGED <<spongeVars, roundVars, hpc, host, loc, idx>>

Call_keccak_256(in) == Called("keccak_256", in, keccak_256(in))
Call_sha3_256(in) == Called("sha3_256", in, sha3_256(in))
Call_sha3_224(in) == Called("sha3_224", in, sha3_224(in))
Call_sha3_384(in) == Called("sha3_384", in, sha3_384(in))
Call_sha3_512(in) == Called("sha3_512", in, sha3_512(in))

NextHash ==
  \E in \in HashInputs :
    \/ Call_keccak_256(in)
    \/ Call_sha3_256(in)
    \/ Call_sha3_224(in)
    \/ Call_sha3_384(in)
    \/ Call_sha3_512(in)

SpecHash == InitHash /\ [][NextHash]_vars

\* ------------------------------------------------------------------------
\* two contexts at once: the calls of a one-shot helper on its local context,
\* one at a time, among the calls of the streaming caller on its own
\* ------------------------------------------------------------------------

\* <<outlen, rate, delim>> as keccak_256 and sha3_256 pass them
HelperArgs(fn) ==
  CASE fn = "keccak_256" -> <<32, KECCAK_RATE_SHA3_256, KECCAK_DELIM_KECCAK>>
    [] fn = "sha3_256" -> <<32, KECCAK_RATE_SHA3_256, KECCAK_DELIM_SHA3>>

InitInterleave ==
  /\ \E m \in Messages : SpongeInit(KECCAK_RATE_SHA3_256, KECCAK_DELIM_SHA3, m)
  /\ HashIdle
  /\ RoundIdle
  /\ HostLittle
  /\ CallIdle

\* helper(in, inlen, out) is entered, on the caller's message:
\* keccak1600_ctx ctx; keccak1600_init(&ctx, rate, delim);
HelperInit(fn) ==
  /\ hpc \in {"idle", "done"}
  /\ hash' = <<fn, src, keccak1600_init(HelperArgs(fn)[2], HelperArgs(fn)[3]), <<>>>>
  /\ hpc' = "absorb"
  /\ UNCHANGED <<spongeVars, roundVars, host, loc, idx>>

\* HelperAbsorb on a context that is not the helper's own but the caller's.
HelperAbsorb_OnSharedCtx ==
  /\ hpc = "absorb"
  /\ ctx' = keccak1600_absorb(ctx, HashIn)
  /\ hpc' = "finalize"
  /\ UNCHANGED <<src, phase, last, msg, out, pre, fin, hash, roundVars, host, loc, idx>>

\* keccak1600_absorb(&ctx, in, inlen);
HelperAbsorb ==
  /\ hpc = "absorb"
  /\ hash' = [hash EXCEPT ![3] = keccak1600_absorb(@, HashIn)]
  /\ hpc' = "finalize"
  /\ UNCHANGED <<spongeVars, roundVars, host, loc, idx>>

\* keccak1600_finalize(&ctx);
HelperFinalize ==
  /\ hpc = "finalize"
  /\ hash' = [hash EXCEPT ![3] = keccak1600_finalize(@)]
  /\ hpc' = "squeeze"
  /\ UNCHANGED <<spongeVars, roundVars, host, loc, idx>>

\* keccak1600_squeeze(&ctx, out, outlen); and the helper returns
HelperSqueeze ==
  /\ hpc = "squeeze"
  /\ LET r == keccak1600_squeeze(HashCtx, HelperArgs(HashFn)[1])
     IN hash' = <<HashFn, HashIn, r[1], r[2]>>
  /\ hpc' = "done"
  /\ UNCHANGED <<spongeVars, roundVars, host, loc, idx>>

NextInterleave ==
  \/ Next
  \/ HelperInit("keccak_256")
  \/ HelperInit("sha3_256")
  \/ HelperAbsorb
  \/ HelperFinalize
  \/ HelperSqueeze

SpecInterleave == InitInterleave /\ [][NextInterleave]_vars

\* ------------------------------------------------------------------------
\* the byte view st = (uint8_t *)ctx->a, on either build
\* ------------------------------------------------------------------------

\* offsets into st: the two ends of the first lane and the last byte of all
ViewOffsets == {0, 7, 199}
\* byte values XORed in: the lowest bit and the highest
ViewBytes == {1, 128}

InitView ==
  /\ \E m \in Messages : SpongeInit(200, KECCAK_DELIM_SHA3, m)
  /\ HashIdle
  /\ RoundIdle
  /\ host \in Hosts
  /\ CallIdle

\* st[i] ^= v, as absorb and finalize do it
ViewXor(i, v) ==
  /\ phase = "absorbing"
  /\ Len(msg) < MaxIn
  /\ ctx' = SetA(ctx, StXorOn(host, A(ctx), i, v))
  /\ pre' = ctx
  /\ msg' = Append(msg, v)
  /\ last' = <<"xor", i>>
  /\ UNCHANGED <<src, phase, out, fin, hash, hpc, host, loc, idx, roundVars>>

\* memcpy(out, st + i, 1), as squeeze does it
ViewCopy(i) ==
  /\ phase = "absorbing"
  /\ Len(out) < MaxOut
  /\ LastOp # "copy"
  /\ out' = out \o StCopyOn(host, A(ctx), i, 1)
  /\ last' = <<"copy", i>>
  /\ UNCHANGED <<ctx, src, phase, msg, pre, fin, hash, hpc, host, loc, idx, roundVars>>

NextView ==
  \/ \E i \in ViewOffsets, v \in ViewBytes : ViewXor(i, v)
  \/ \E i \in ViewOffsets : ViewCopy(i)

SpecView == InitView /\ [][NextView]_vars

\* ------------------------------------------------------------------------
\* keccakf1600 step by step: the four steps of KECCAK_ROUND, 24 times
\* ------------------------------------------------------------------------

InitRound ==
  /\ SpongeInit(KECCAK_RATE_SHA3_256, KECCAK_DELIM_SHA3, <<>>)
  /\ HashIdle
  /\ HostLittle
  /\ CallIdle
  /\ s \in RoundInputs
  /\ pc = "theta"
  /\ rnd = 0
  /\ prev = s

StepTheta ==
  /\ pc = "theta"
  /\ rnd < 24
  /\ s' = Store(Theta(s))
  /\ prev' = s
  /\ pc' = "rhopi"
  /\ UNCHANGED <<rnd, spongeVars, hash, hpc, host, loc, idx>>

StepRhoPi ==
  /\ pc = "rhopi"
  /\ s' = Store(RhoPi(s))
  /\ prev' = s
  /\ pc' = "chi"
  /\ UNCHANGED <<rnd, spongeVars, hash, hpc, host, loc, idx>>

StepChi ==
  /\ pc = "chi"
  /\ s' = Store(Chi(s))
  /\ prev' = s
  /\ pc' = "iota"
  /\ UNCHANGED <<rnd, spongeVars, hash, hpc, host, loc, idx>>

StepIota ==
  /\ pc = "iota"
  /\ s' = Store(Iota(s, LaneOfBytes(KECCAK_RC[rnd + 1])))
  /\ prev' = s
  /\ pc' = "theta"
  /\ rnd' = rnd + 1
  /\ UNCHANGED <<spongeVars, hash, hpc, host, loc, idx>>

NextRound == StepTheta \/ StepRhoPi \/ StepChi \/ StepIota

SpecRound == InitRound /\ [][NextRound]_vars

\* ------------------------------------------------------------------------
\* properties
\* ------------------------------------------------------------------------

\* p ^ q on bytes, by arithmetic on the eight bits
Xor8(p, q) ==
  LET bit(k) == (((p \div Pow2[k]) + (q \div Pow2[k])) % 2) * Pow2[k]
  IN bit(1) + bit(2) + bit(3) + bit(4) + bit(5) + bit(6) + bit(7) + bit(8)

\* The digits of a byte string written in hexadecimal, two per byte.
Hex(b) ==
  AsTuple([i \in 1 .. 2 * Len(b) |->
    IF i % 2 = 1 THEN b[(i + 1) \div 2] \div 16 ELSE b[i \div 2] % 16])

\* The context a single keccak1600_absorb of all of msg gives a fresh context.
SingleAbsorb == keccak1600_absorb(keccak1600_init(Rate(ctx), Delim(ctx)), msg)

\* C1: however the bytes absorbed so far were split across absorb calls, the
\* context holds the state and pos that one absorb of their concatenation
\* gives, and after finalize the bytes squeezed are those of that one absorb.
ChunkIndependence ==
  /\ phase = "absorbing" =>
       A(ctx) = A(SingleAbsorb) /\ Pos(ctx) = Pos(SingleAbsorb)
  /\ phase = "squeezing" =>
       out = keccak1600_squeeze(keccak1600_finalize(SingleAbsorb), Len(out))[2]

\* C1 witness: three bytes went in as one byte and then two, at rate 2, so the
\* second call closed a window and opened the next.
ChunkedAcrossWindow ==
  /\ phase = "absorbing"
  /\ LastOp = "absorb"
  /\ Rate(ctx) = 2
  /\ Len(msg) = 3
  /\ LastLen = 2
  /\ Calls(ctx) = 1

\* C2: the bytes squeezed so far, over any number of squeeze calls, are the
\* bytes one squeeze of their total length writes from the finalized context.
SqueezeStreaming ==
  phase = "squeezing" => out = keccak1600_squeeze(fin, Len(out))[2]

\* C2 witness: three bytes came out in two or more calls, the last of one
\* byte, at rate 2.
SqueezedInTwo ==
  /\ LastOp = "squeeze"
  /\ Rate(ctx) = 2
  /\ Len(out) = 3
  /\ LastLen = 1

\* C3: between operations the cursor stays inside the rate window.
PosBelowRate == 0 <= Pos(ctx) /\ Pos(ctx) < Rate(ctx)

\* The rotation offsets and the lane permutation of the Keccak standard: lane
\* (x, y) reached after t steps of (x, y) <- (y, 2x + 3y) from (1, 0) rotates
\* by (t + 1)(t + 2) / 2, lane (0, 0) by 0, and moves to (y, 2x + 3y).
RECURSIVE StdWalk(_)
StdWalk(t) ==
  IF t = 0 THEN <<1, 0>>
  ELSE LET p == StdWalk(t - 1) IN <<p[2], (2 * p[1] + 3 * p[2]) % 5>>
StdOffset(x, y) ==
  IF x = 0 /\ y = 0 THEN 0
  ELSE LET t == CHOOSE u \in 0 .. 23 : StdWalk(u) = <<x, y>>
       IN (((t + 1) * (t + 2)) \div 2) % 64
StdRotl(x, n) == {(i + n) % 64 : i \in x}

\* C4: the rho-pi step rotates every lane (x, y) by the standard's offset and
\* moves it to the standard's destination (y, 2x + 3y).
RhoPiStandard ==
  pc = "chi" =>
    \A x \in 0 .. 4, y \in 0 .. 4 :
      s[L(y, (2 * x + 3 * y) % 5)] = StdRotl(prev[L(x, y)], StdOffset(x, y))

\* The digests of the specification, digit by digit (63 digits each).
KeccakEmptyHex ==
  << 12, 5, 13, 2, 4, 6, 0, 1, 8, 6, 15, 7, 2, 3, 3, 12,
     9, 2, 7, 14, 7, 13, 11, 2, 13, 12, 12, 7, 0, 3, 12, 0,
     14, 5, 0, 0, 11, 6, 5, 3, 12, 10, 8, 2, 2, 7, 3, 11,
     7, 11, 15, 10, 13, 8, 0, 4, 5, 13, 8, 5, 10, 4, 7 >>
Sha3EmptyHex ==
  << 10, 7, 15, 15, 12, 6, 15, 8, 11, 15, 1, 14, 13, 7, 6, 6,
     5, 1, 12, 1, 4, 7, 5, 6, 10, 0, 6, 1, 13, 6, 6, 2,
     15, 5, 8, 0, 15, 15, 4, 13, 14, 4, 3, 11, 4, 9, 15, 10,
     8, 2, 13, 8, 0, 10, 4, 11, 8, 0, 15, 8, 4, 3, 4 >>

\* C5: keccak_256 of the empty input writes the digest the specification
\* gives for legacy Keccak-256, digit for digit.
KeccakEmptyVector ==
  (HashFn = "keccak_256" /\ HashIn = <<>>) =>
    SubSeq(Hex(HashOut), 1, Len(KeccakEmptyHex)) = KeccakEmptyHex

\* C6: sha3_256 of the empty input writes the digest the specification gives
\* for SHA3-256, digit for digit.
Sha3EmptyVector ==
  (HashFn = "sha3_256" /\ HashIn = <<>>) =>
    SubSeq(Hex(HashOut), 1, Len(Sha3EmptyHex)) = Sha3EmptyHex

\* The rate window as finalize pads it: delim into byte pos, 0x80 into byte
\* rate - 1, every other byte of the 200 as it was.
PaddedByte(c, i) ==
  Xor8(Xor8(StByte(A(c), i), IF i = Pos(c) THEN Delim(c) ELSE 0),
       IF i = Rate(c) - 1 THEN 128 ELSE 0)
PaddedLanes(c) ==
  AsTuple([l \in 1 .. 25 |->
    LaneOfBytes(AsTuple([k \in 1 .. 8 |-> PaddedByte(c, 8 * (l - 1) + k - 1)]))])

\* C7: finalize leaves the permutation, applied once, of the state padded so;
\* pos is 0 and rate and delim are as before.
FinalizePadding ==
  LastOp = "finalize" =>
    /\ A(ctx) = keccakf1600(PaddedLanes(pre))
    /\ Calls(ctx) = Calls(pre) + 1
    /\ Pos(ctx) = 0
    /\ Rate(ctx) = Rate(pre)
    /\ Delim(ctx) = Delim(pre)

\* C7 witness: finalize ran with the cursor on the last byte of a two-byte
\* window, where delim and 0x80 meet.
FinalizedAtLastByte ==
  /\ LastOp = "finalize"
  /\ Rate(pre) = 2
  /\ Pos(pre) = 1
  /\ Len(msg) = 3

\* C8: while absorbing, the permutation has run once per whole window of
\* input and pos is the length of the open window's content.
AbsorbBlockCount ==
  phase = "absorbing" =>
    /\ Calls(ctx) = Len(msg) \div Rate(ctx)
    /\ Pos(ctx) = Len(msg) % Rate(ctx)

\* C8 witness: one absorb of exactly rate bytes, and one permutation.
AbsorbedExactlyRate ==
  /\ phase = "absorbing"
  /\ LastOp = "absorb"
  /\ Rate(ctx) = 2
  /\ LastLen = 2
  /\ Len(msg) = 2
  /\ Calls(ctx) = 1

\* The lanes after 0, 1, .., n further permutations of a.
RECURSIVE Blocks(_, _)
Blocks(a, n) ==
  IF n = 0 THEN <<a>>
  ELSE LET b == Blocks(a, n - 1) IN Append(b, keccakf1600(b[Len(b)]))

\* C9: byte j of the bytes squeezed is byte j mod rate of the finalized state
\* permuted j div rate further times.
SqueezeStream ==
  (phase = "squeezing" /\ Len(out) > 0) =>
    LET b == Blocks(A(fin), (Len(out) - 1) \div Rate(ctx))
    IN \A j \in 0 .. (Len(out) - 1) :
         out[j + 1] = StByte(b[(j \div Rate(ctx)) + 1], j % Rate(ctx))

\* C9 witness: three bytes came out at rate 2, the last call writing the
\* last byte of one window and the first byte of the next.
SqueezedPastWindow ==
  /\ LastOp = "squeeze"
  /\ Rate(ctx) = 2
  /\ Len(out) = 3
  /\ LastLen = 2

\* The parameter table of the specification: <<rate, delim, output length>>.
TableParams(fn) ==
  CASE fn = "keccak_256" -> <<136, 1, 32>>
    [] fn = "sha3_224" -> <<144, 6, 28>>
    [] fn = "sha3_256" -> <<136, 6, 32>>
    [] fn = "sha3_384" -> <<104, 6, 48>>
    [] fn = "sha3_512" -> <<72, 6, 64>>

\* C10: every helper call ran the sponge on its input with the rate, the
\* delimiter and the output length the table gives for the helper.
ParameterSets ==
  HashFn # "none" =>
    LET p == TableParams(HashFn)
    IN /\ Rate(HashCtx) = p[1]
       /\ Delim(HashCtx) = p[2]
       /\ Len(HashOut) = p[3]
       /\ <<HashCtx, HashOut>> = sha3_hash_generic(HashIn, p[3], p[1], p[2])

\* C10 witness: a legacy Keccak-256 call on a two-byte input.
KeccakCalled == HashFn = "keccak_256" /\ Len(HashIn) = 2

\* The places an input is cut at: its two ends, one byte from either end, and
\* one byte before, at and after every rate boundary.
Cuts(in, rate) ==
  {k \in 0 .. Len(in) :
     k <= 1 \/ k >= Len(in) - 1 \/ (k % rate) \in {0, 1, rate - 1}}
\* The input in three chunks (any of them may be empty), cut at j and k.
Chunks(in, j, k) ==
  <<SubSeq(in, 1, j), SubSeq(in, j + 1, k), SubSeq(in, k + 1, Len(in))>>
\* keccak1600_absorb called on a caller-owned context once per chunk.
RECURSIVE AbsorbChunks(_, _)
AbsorbChunks(c, chunks) ==
  IF chunks = <<>> THEN c
  ELSE AbsorbChunks(keccak1600_absorb(c, Head(chunks)), Tail(chunks))
\* init(rate, delim); absorb per chunk; finalize; squeeze(outlen)
StreamOut(rate, delim, chunks, outlen) ==
  keccak1600_squeeze(
    keccak1600_finalize(AbsorbChunks(keccak1600_init(rate, delim), chunks)), outlen)[2]

\* C11: the bytes a one-shot helper writes are the bytes the streaming calls
\* init, absorb per chunk, finalize, squeeze write on a context of the
\* caller, with the variant's rate, delimiter and length, however the input
\* is cut into chunks.
OneShotIsStreaming ==
  HashFn # "none" =>
    LET p == TableParams(HashFn)
        cuts == Cuts(HashIn, p[1])
    IN \A j \in cuts, k \in cuts :
         j <= k => HashOut = StreamOut(p[1], p[2], Chunks(HashIn, j, k), p[3])

\* C11 witness: sha3_512 hashed 137 bytes, which its 72-byte window cuts in
\* two, so the chunkings tried cross the window boundary.
LongInputHashed ==
  /\ HashFn = "sha3_512"
  /\ Len(HashIn) = KECCAK_RATE_SHA3_256 + 1
  /\ Calls(HashCtx) = 2

\* Output lengths asked of a context: none, one byte, up to the end of the
\* rate window, and one byte past it.
SqueezeLens(c) == {0, 1, Rate(c) - Pos(c), Rate(c) - Pos(c) + 1}

\* C12: a one-shot helper writes out[0 .. len) for the length of its variant,
\* no byte less and no byte more, whatever the input length; and a further
\* keccak1600_squeeze(out, n) on its context writes n bytes.
FixedLengthOutput ==
  HashFn # "none" =>
    /\ Len(HashOut) = TableParams(HashFn)[3]
    /\ \A i \in 1 .. Len(HashOut) : HashOut[i] \in 0 .. 255
    /\ \A n \in SqueezeLens(HashCtx) : Len(keccak1600_squeeze(HashCtx, n)[2]) = n

\* C12 witness: sha3_224 hashed exactly one rate window of input and wrote
\* 28 bytes.
WindowHashed ==
  /\ HashFn = "sha3_224"
  /\ Len(HashIn) = KECCAK_RATE_SHA3_224
  /\ Calls(HashCtx) = 2
  /\ Len(HashOut) = 28

\* C13: keccak1600_absorb with inlen = 0 takes no element of the input (the
\* input is the empty sequence, which has none to give), runs no permutation
\* and returns the context as it found it, at every cursor reached while
\* absorbing and on a fresh context, which is where the one-shot helpers
\* call it.
ZeroLengthAbsorb ==
  phase = "absorbing" =>
    /\ keccak1600_absorb(ctx, <<>>) = ctx
    /\ LET c == keccak1600_init(Rate(ctx), Delim(ctx))
       IN keccak1600_absorb(c, <<>>) = c

\* C13 witness: an absorb of no bytes ran on a context with an open block,
\* after a permutation.
AbsorbedNothing ==
  /\ phase = "absorbing"
  /\ LastOp = "absorb"
  /\ LastLen = 0
  /\ Pos(ctx) > 0
  /\ Calls(ctx) > 0

\* The sponge construction on whole states: b, of at most rate bytes, is
\* extended with zero bytes to the 200 bytes of a state, so that XORing it in
\* leaves every byte from rate on as it was.
ExtendBlock(b) ==
  AsTuple([l \in 1 .. 25 |->
    LaneOfBytes(AsTuple([k \in 1 .. 8 |->
      IF 8 * (l - 1) + k <= Len(b) THEN b[8 * (l - 1) + k] ELSE 0]))])
XorLanes(a, b) == AsTuple([l \in 1 .. 25 |-> XOR64(a[l], b[l])])
\* The state after the bytes m went into state a: every whole block XORed in
\* and permuted, the bytes left over XORed in.
RECURSIVE SpongeState(_, _, _)
SpongeState(a, m, rate) ==
  IF Len(m) >= rate
  THEN SpongeState(keccakf1600(XorLanes(a, ExtendBlock(SubSeq(m, 1, rate)))),
                   SubSeq(m, rate + 1, Len(m)), rate)
  ELSE Store(XorLanes(a, ExtendBlock(m)))
\* The capacity bytes st[rate .. 200) of a context.
Capacity(c) == AsTuple([i \in 1 .. 200 - Rate(c) |-> StByte(A(c), Rate(c) + i - 1)])

\* C14: in a legal sequence every state byte a call XORs into or reads has
\* an index below rate.  absorb XORs the input into the bytes below rate
\* only: the state is that of the sponge construction on blocks extended
\* with zeros.  finalize found that state and XORed delim and 0x80 into it
\* leaving the bytes from rate on as they were until its permutation.  squeeze writes no byte of the
\* state, which is the finalized state permuted once per permutation run
\* since, and byte j it hands out is the byte at index j mod rate, below
\* rate, of the state after j div rate of those permutations.  So the
\* bytes st[rate .. 200) change through the permutation only.
CapacityProtected ==
  /\ \A i \in idx : 0 <= i /\ i < Rate(ctx)
  /\ phase = "absorbing" => A(ctx) = SpongeState(keccak_state_zero, msg, Rate(ctx))
  /\ phase = "squeezing" =>
       /\ A(pre) = SpongeState(keccak_state_zero, msg, Rate(ctx))
       /\ Capacity(SetA(pre, PaddedLanes(pre))) = Capacity(pre)
       /\ A(fin) = keccakf1600(PaddedLanes(pre))
       /\ LET b == Blocks(A(fin), Calls(ctx) - Calls(fin))
          IN /\ A(ctx) = b[Len(b)]
             /\ \A j \in 0 .. Len(out) - 1 :
                  /\ j \div Rate(ctx) < Len(b)
                  /\ out[j + 1] = StByte(b[(j \div Rate(ctx)) + 1], j % Rate(ctx))

\* C14 witness: at rate 2 three bytes were absorbed, one of them into an open
\* block, and three bytes squeezed, the last call reading both bytes of the
\* window with a permutation in between.
CapacityExercised ==
  /\ phase = "squeezing"
  /\ Rate(ctx) = 2
  /\ Len(msg) = 3
  /\ Len(out) = 3
  /\ Calls(ctx) = Calls(fin) + 1
  /\ LastOp = "squeeze"
  /\ idx = {0, 1}

\* C15: keccak1600_init on a context that holds anything leaves what it
\* leaves on a new one: 25 zero lanes, pos 0, the rate and the delimiter
\* given; and the context behaves from then on as a new one does, absorb
\* and finalize leaving what they leave on a new context given the same
\* bytes.
InitResets ==
  /\ \A rate \in Rates, delim \in Delims :
       keccak1600_init_on(ctx, rate, delim) = keccak1600_init(rate, delim)
  /\ LastOp \in {"init", "reinit"} =>
       /\ A(ctx) = keccak_state_zero
       /\ Pos(ctx) = 0
       /\ ctx = keccak1600_init(Rate(ctx), Delim(ctx))
  /\ phase = "absorbing" => ctx = SingleAbsorb
  /\ phase = "squeezing" => fin = keccak1600_finalize(SingleAbsorb)

\* C15 witness: init ran on a context that had a block open, its lanes not
\* zero, and gave it the legacy delimiter.
InitOnUsedContext ==
  /\ LastOp = "reinit"
  /\ LastLen > 0
  /\ Delim(ctx) = KECCAK_DELIM_KECCAK
  /\ A(ctx) = keccak_state_zero

\* The digest a helper writes when its call runs with nothing in between.
Alone(fn, in) ==
  CASE fn = "keccak_256" -> keccak_256(in)[2]
    [] fn = "sha3_256" -> sha3_256(in)[2]

\* C16: with the calls of a helper on its local context running among the
\* calls of the streaming caller on its own, each context holds and writes
\* what it does when its calls run alone: the caller's context is that of
\* one absorb of its bytes and its output that of the streaming calls with
\* nothing in between, the helper's digest is that of an undisturbed call,
\* and the same bytes under the same variant give the same digest on both.
ContextsIsolated ==
  /\ phase = "absorbing" => ctx = SingleAbsorb
  /\ phase = "squeezing" =>
       out = StreamOut(Rate(ctx), Delim(ctx), <<msg>>, Len(out))
  /\ hpc = "done" => HashOut = Alone(HashFn, HashIn)
  /\ (hpc = "done" /\ HashFn = "sha3_256" /\ phase = "squeezing" /\ msg = HashIn) =>
       out = SubSeq(HashOut, 1, Len(out))

\* C16 witness: a helper call has returned, and the caller, whose calls ran
\* among the helper's, has absorbed the same bytes and squeezed three.
HelperRanAmongCalls ==
  /\ hpc = "done"
  /\ HashFn = "sha3_256"
  /\ phase = "squeezing"
  /\ LastOp = "squeeze"
  /\ msg = HashIn
  /\ Len(out) = 3

\* C17: on every build, byte i of the view st is bits 8 (i mod 8) ..
\* 8 (i mod 8) + 7 of lane a[i div 8]: that is the byte read at st[i], the
\* byte memcpy takes from st + i, and the bits st[i] ^= v flips.
LittleEndianView ==
  /\ \A i \in 0 .. 199 :
       StByteOn(host, A(ctx), i) = LaneByte(A(ctx)[(i \div 8) + 1], i % 8)
  /\ LastOp = "copy" =>
       out[Len(out)] = LaneByte(A(ctx)[(LastLen \div 8) + 1], LastLen % 8)
  /\ LastOp = "xor" =>
       A(ctx) = [A(pre) EXCEPT ![(LastLen \div 8) + 1] =
                   XOR64(@, ByteBits(msg[Len(msg)], LastLen % 8))]

\* The round constants of the Keccak standard.  rc(t) is the low bit of the
\* 8-bit register that starts at 1 and is stepped t times, a step doubling
\* it and XORing 0x171 in when bit 8 comes up (0x171 less bit 8 is 0x71 =
\* 113); constant i has rc(j + 7 i) at bit 2^j - 1, j = 0 .. 6.
\* (The tests on nx and p make TLC compute a register before it steps it
\* again; they are always true.)
StdLfsrStep(r) == IF 2 * r >= 256 THEN Xor8(2 * r - 256, 113) ELSE 2 * r
RECURSIVE StdLfsrSteps(_, _)
StdLfsrSteps(r, n) ==
  IF n = 0 THEN r
  ELSE LET nx == StdLfsrStep(r)
       IN IF nx >= 0 THEN StdLfsrSteps(nx, n - 1) ELSE nx
\* the register after 7 i steps
RECURSIVE StdLfsr(_)
StdLfsr(i) ==
  IF i = 0 THEN 1
  ELSE LET p == StdLfsr(i - 1)
       IN IF p >= 0 THEN StdLfsrSteps(p, 7) ELSE p
StdRC(i) == {Pow2[j + 1] - 1 : j \in {k \in 0 .. 6 : StdLfsrSteps(StdLfsr(i), k) % 2 = 1}}
\* Rounds i .. 23 of the standard's round structure: theta, rho-pi, chi, then
\* the constant of the round into lane (0, 0).
RECURSIVE StdRounds(_, _)
StdRounds(a, i) ==
  IF i = 24 THEN a
  ELSE LET nx == Store([Chi(RhoPi(Theta(a))) EXCEPT ![1] = XOR64(@, StdRC(i))])
       IN IF Len(nx) = 25 THEN StdRounds(nx, i + 1) ELSE nx

\* C18: keccakf1600 runs 24 rounds and no more, every one theta, rho-pi, chi,
\* iota in this order; iota of round i XORs the standard's constant i into
\* lane (0, 0) and leaves the other 24 lanes alone; and the table KECCAK_RC
\* is the standard's, bit for bit.
RoundStructure ==
  /\ rnd \in 0 .. 24
  /\ (pc = "theta" /\ rnd > 0) => s = [prev EXCEPT ![1] = XOR64(@, StdRC(rnd - 1))]
  /\ rnd = 24 =>
       /\ pc = "theta"
       /\ ~ ENABLED StepTheta
       /\ \E x \in RoundInputs : s = StdRounds(x, 0) /\ s = keccakf1600(x)
  /\ \A i \in 0 .. 23 : LaneOfBytes(KECCAK_RC[i + 1]) = StdRC(i)

\* C18 witness: the 24th round has run its iota.
AllRoundsRun == rnd = 24 /\ pc = "theta" /\ s # prev /\ s # keccak_state_zero

\* C19: chi leaves in every lane (x, y) the lane XOR the lane at x + 2 with
\* the bits of the lane at x + 1 cleared, x counted mod 5 along row y, all
\* three read as they were before chi.
ChiStandard ==
  pc = "iota" =>
    \A x \in 0 .. 4, y \in 0 .. 4 :
      s[L(x, y)] =
        XOR64(prev[L(x, y)],
              (Bits \ prev[L((x + 1) % 5, y)]) \cap prev[L((x + 2) % 5, y)])

\* C19 witness: chi has run in the second round, on lanes it changes.
ChiRan == pc = "iota" /\ rnd = 1 /\ s # prev

\* The XOR of the five lanes of column x; the lane XORed into column x.
StdC(a, x) ==
  XOR64(XOR64(XOR64(XOR64(a[L(x, 0)], a[L(x, 1)]), a[L(x, 2)]), a[L(x, 3)]), a[L(x, 4)])
StdD(a, x) == XOR64(StdC(a, (x + 4) % 5), StdRotl(StdC(a, (x + 1) % 5), 1))

\* C20: theta XORs into every lane (x, y) the parity of column x - 1 XOR the
\* parity of column x + 1 rotated left by one, the parities being those of
\* the lanes before theta.
ThetaStandard ==
  pc = "rhopi" =>
    \A x \in 0 .. 4, y \in 0 .. 4 : s[L(x, y)] = XOR64(prev[L(x, y)], StdD(prev, x))

\* C20 witness: theta has run in the second round, on lanes it changes.
ThetaRan == pc = "rhopi" /\ rnd = 1 /\ s # prev
\* ------------------------------------------------------------------------
\* C21: a keccak1600_absorb or keccak1600_squeeze call that has been entered
\* returns.  Every step of a running call moves it on to a later line or is
\* a pass of its while loop that lowers the length left (inlen, outlen);
\* the length left is never negative and the local pos never passes rate,
\* so that neither "rate - pos" nor "inlen -= rate" wraps around and the
\* passes a call can make are at most the length it was given.
\* keccak1600_finalize has no loop.
\* ------------------------------------------------------------------------

\* The length left is inlen of the absorb call that runs, outlen of the
\* squeeze call that runs.
CallsTerminate ==
  /\ [](LocPos <= Rate(ctx) /\ LocOutlen >= 0 /\ loc[5] <= LastLen)
  /\ [][LocAt # "idle" =>
          \/ LocAt' = "idle"
          \/ LocAt = "absorb_if" /\ LocAt' = "absorb_while"
          \/ /\ LocAt' = LocAt
             /\ Len(LocIn') + LocOutlen' < Len(LocIn) + LocOutlen]_vars

\* A squeeze of two bytes that was entered with the cursor at the end of a
\* window of two bytes has returned.
SqueezeFromWindowEndReturned ==
  /\ LocAt = "idle"
  /\ LastOp = "squeeze"
  /\ LastLen = 2
  /\ Rate(ctx) = 2
  /\ Len(out) = 4
  /\ Calls(ctx) = Calls(fin) + 1

\* ------------------------------------------------------------------------
\* C22: in whatever order absorb, finalize and squeeze are called, every
\* state byte a call reads or writes has an index below rate: none lies in
\* the capacity, none outside the 200 bytes of the state.
\* ------------------------------------------------------------------------

AccessBelowRate == \A i \in idx : 0 <= i /\ i < Rate(ctx) /\ i < 200

\* ------------------------------------------------------------------------
\* C23: after finalize, when N bytes have been squeezed in all, in however
\* many calls, the squeeze calls have applied the permutation
\* max(0, ceil(N / rate) - 1) times: a window's permutation runs only once a
\* byte beyond that window is asked for.
\* ------------------------------------------------------------------------

SqueezePermutationCount ==
  phase = "squeezing" =>
    LET windows == (Len(out) + Rate(ctx) - 1) \div Rate(ctx)
    IN Calls(ctx) - Calls(fin) = IF windows >= 1 THEN windows - 1 ELSE 0

\* Four windows of one byte squeezed, the last two in one call: three
\* permutations.
FourWindowsSqueezed ==
  /\ phase = "squeezing"
  /\ Rate(ctx) = 1
  /\ Len(out) = 4
  /\ LastLen = 2
  /\ Calls(ctx) - Calls(fin) = 3

\* ------------------------------------------------------------------------
\* C24: a keccak1600_squeeze call leaves rate and delim as they were and
\* the lanes as they were but for the permutations it applies.  A call for
\* n bytes with pos + n <= rate applies none: the lanes stay, pos grows by
\* n and n bytes are written.  A call for 0 bytes changes nothing and
\* writes nothing.
\* ------------------------------------------------------------------------

\* keccakf1600 applied k times
RECURSIVE PermuteTimes(_, _)
PermuteTimes(a, k) ==
  IF k = 0 THEN a
  ELSE LET nx == keccakf1600(a)
       IN IF Len(nx) = 25 THEN PermuteTimes(nx, k - 1) ELSE nx

\* a step of the caller that has finalized is a keccak1600_squeeze call for
\* n bytes, which applies the permutation k times
SqueezeFrame ==
  [][phase = "squeezing" =>
       LET n == LastLen'
           k == Calls(ctx') - Calls(ctx)
       IN /\ LastOp' = "squeeze"
          /\ Rate(ctx') = Rate(ctx)
          /\ Delim(ctx') = Delim(ctx)
          /\ k >= 0
          /\ A(ctx') = PermuteTimes(A(ctx), k)
          /\ Len(out') = Len(out) + n
          /\ SubSeq(out', 1, Len(out)) = out
          /\ Pos(ctx) + n <= Rate(ctx) =>
               k = 0 /\ A(ctx') = A(ctx) /\ Pos(ctx') = Pos(ctx) + n
          /\ n = 0 => ctx' = ctx /\ out' = out]_vars

\* A squeeze of two bytes from cursor 1 of a window of 136 bytes has left
\* the lanes as finalize left them and the cursor at 3.
SqueezedInsideWindow ==
  /\ LastOp = "squeeze"
  /\ LastLen = 2
  /\ Rate(ctx) = KECCAK_RATE_SHA3_256
  /\ Len(out) = 3
  /\ Pos(ctx) = 3
  /\ A(ctx) = A(fin)

====
